---- MODULE Spec2Model ----
(***************************************************************************)
(* A model of tablib's Dataset (src/src/tablib/core.py).                   *)
(*                                                                         *)
(* Python objects that are shared by reference live in two heaps: `rows`   *)
(* holds the Row objects, `lists` the list objects a Dataset points to     *)
(* (its header list, its formatter list, its separator list).  A Dataset   *)
(* holds object ids, so that copy(self), list(self._data) and in-place     *)
(* list operations alias exactly what they alias in Python.                *)
(***************************************************************************)
EXTENDS Integers, Sequences, FiniteSets, TLC

VARIABLES rows, lists, ds, op, raised, ret, io

vars == <<rows, lists, ds, op, raised, ret, io>>

(***************************************************************************)
(* Bounds and input sets.                                                  *)
(***************************************************************************)
MaxHeight == 2
MaxWidth == 2

Vals == {1, 2}
HeaderNames == {"a", "b"}
DsNames == {"self", "other", "dset", "_dset"}

SeqsUpTo(S, n) == UNION {[1..k -> S] : k \in 0..n}

RowInputs == SeqsUpTo(Vals, MaxWidth)
HeaderInputs == SeqsUpTo(HeaderNames, MaxWidth)

(***************************************************************************)
(* Python values.                                                          *)
(***************************************************************************)
None == 0
NoRet == <<>>

\* The registry of formats and the stream handed to load: none, in the
\* specifications that do not load.
NoIO == [formats |-> <<>>, stream |-> [str |-> TRUE, lines |-> <<>>, pos |-> 0, sniff |-> {}], log |-> <<>>]

\* Python's list.insert: the index is clamped to the list (negative counts
\* from the end).
ListInsert(s, index, x) ==
    LET i0 == IF index < 0 THEN index + Len(s) ELSE index
        i  == IF i0 < 0 THEN 0 ELSE IF i0 > Len(s) THEN Len(s) ELSE i0
    IN SubSeq(s, 1, i) \o <<x>> \o SubSeq(s, i + 1, Len(s))

\* Python's index normalisation for s[i] / del s[i]; InRange says whether
\* the access raises IndexError.
PyIndex(len, i) == IF i < 0 THEN i + len ELSE i
InRange(len, i) == PyIndex(len, i) >= 0 /\ PyIndex(len, i) < len
ListDel(s, i) ==
    LET k == PyIndex(Len(s), i) + 1
    IN SubSeq(s, 1, k - 1) \o SubSeq(s, k + 1, Len(s))

\* list.index(x): position (0-based) of the first occurrence.
Contains(s, x) == \E i \in 1..Len(s) : s[i] = x
ListIndex(s, x) == (CHOOSE i \in 1..Len(s) : s[i] = x /\ \A j \in 1..(i - 1) : s[j] # x) - 1

(***************************************************************************)
(* Memory: m = [rows, lists, ds].  An operation maps a memory to an        *)
(* outcome [m, exc, ret]: the memory it leaves (also when it raises), the  *)
(* exception it raises ("None" for a normal return) and what it returns.   *)
(***************************************************************************)
Mem == [rows |-> rows, lists |-> lists, ds |-> ds]

Ok(m, r) == [m |-> m, exc |-> "None", ret |-> r]
Raise(m, e) == [m |-> m, exc |-> e, ret |-> NoRet]

NoDataset == [exists |-> FALSE, data |-> <<>>, headers |-> None, formatters |-> None,
              separators |-> None, title |-> "None"]

EmptyMem == [rows |-> <<>>, lists |-> <<>>, ds |-> [n \in DsNames |-> NoDataset]]

Row(row, tags) == [cells |-> row, tags |-> tags]

NewRow(m, row, tags) == [m EXCEPT !.rows = Append(@, Row(row, tags))]
NewList(m, items) == [m EXCEPT !.lists = Append(@, items)]

\* self._data[i] (1-based here) as a Row object, and its cells.
RowObj(m, n, i) == m.rows[m.ds[n].data[i]]
Cells(m, n, i) == RowObj(m, n, i).cells

\* self.headers as a sequence (None reads as the empty sequence where the
\* code only tests truthiness or iterates).
HeaderSeq(m, n) == IF m.ds[n].headers = None THEN <<>> ELSE m.lists[m.ds[n].headers]
FormatterSeq(m, n) == IF m.ds[n].formatters = None THEN <<>> ELSE m.lists[m.ds[n].formatters]

height(m, n) == Len(m.ds[n].data)

width(m, n) ==
    IF Len(m.ds[n].data) > 0 THEN Len(Cells(m, n, 1))
    ELSE IF m.ds[n].headers # None THEN Len(m.lists[m.ds[n].headers])
    ELSE 0

\* Dataset._validate(row, col): is_valid.  A None argument and an empty one
\* take the same branch (the code tests truthiness), so None is <<>> here.
_validate(m, n, row, col) ==
    IF Len(row) > 0
    THEN (IF width(m, n) # 0 THEN Len(row) = width(m, n) ELSE TRUE)
    ELSE IF Len(col) > 0
    THEN (IF Len(col) < 1 THEN TRUE
          ELSE IF height(m, n) # 0 THEN Len(col) = height(m, n) ELSE TRUE)
    ELSE \A i \in 1..height(m, n) : Len(Cells(m, n, i)) = width(m, n)

\* Dataset._set_headers(collection)
_set_headers(m, n, collection) ==
    IF ~_validate(m, n, collection, <<>>) THEN Raise(m, "InvalidDimensions")
    ELSE IF Len(collection) > 0
    THEN Ok([NewList(m, collection) EXCEPT !.ds[n].headers = Len(m.lists) + 1], NoRet)
    ELSE Ok([m EXCEPT !.ds[n].headers = None], NoRet)

\* Dataset.__init__(*args, headers=, title=)
Dataset_init(m, n, args, hdrs, title) ==
    LET m1 == [m EXCEPT !.rows = @ \o [i \in 1..Len(args) |-> Row(args[i], {})],
                        !.lists = @ \o << <<>>, <<>> >>,
                        !.ds[n] = [exists |-> TRUE,
                                   data |-> [i \in 1..Len(args) |-> Len(m.rows) + i],
                                   headers |-> None,
                                   separators |-> Len(m.lists) + 1,
                                   formatters |-> Len(m.lists) + 2,
                                   title |-> "None"]]
        o == _set_headers(m1, n, hdrs)
    IN IF o.exc # "None" THEN o
       ELSE Ok([o.m EXCEPT !.ds[n].title = title], NoRet)

\* insert without its call of _validate.
insert_unvalidated(m, n, index, row, tags) ==
    Ok([NewRow(m, row, tags) EXCEPT !.ds[n].data = ListInsert(@, index, Len(m.rows) + 1)], NoRet)

\* Dataset.insert(index, row, tags)
insert(m, n, index, row, tags) ==
    IF ~_validate(m, n, row, <<>>) THEN Raise(m, "InvalidDimensions")
    ELSE Ok([NewRow(m, row, tags) EXCEPT !.ds[n].data = ListInsert(@, index, Len(m.rows) + 1)],
            NoRet)

\* Dataset.rpush / Dataset.lpush / Dataset.append
rpush(m, n, row, tags) == insert(m, n, height(m, n), row, tags)
lpush(m, n, row, tags) == insert(m, n, 0, row, tags)
append(m, n, row, tags) == rpush(m, n, row, tags)

\* Dataset.extend(rows, tags): append row after row; a raise leaves the rows
\* appended so far.
RECURSIVE extend(_, _, _, _)
extend(m, n, rs, tags) ==
    IF Len(rs) = 0 THEN Ok(m, NoRet)
    ELSE LET o == append(m, n, Head(rs), tags)
         IN IF o.exc # "None" THEN o ELSE extend(o.m, n, Tail(rs), tags)

\* Dataset.__getitem__(key) for an integer key: the row as a tuple.
\* For a string key: the column under the first header equal to key.
getitem_int(m, n, key) ==
    IF ~InRange(height(m, n), key) THEN Raise(m, "IndexError")
    ELSE Ok(m, Cells(m, n, PyIndex(height(m, n), key) + 1))

RECURSIVE ColumnFrom(_, _, _, _, _)
ColumnFrom(m, n, pos, i, acc) ==
    IF i > height(m, n) THEN Ok(m, acc)
    ELSE IF ~InRange(Len(Cells(m, n, i)), pos) THEN Raise(m, "IndexError")
    ELSE ColumnFrom(m, n, pos, i + 1, Append(acc, Cells(m, n, i)[PyIndex(Len(Cells(m, n, i)), pos) + 1]))

getitem_str(m, n, key) ==
    IF m.ds[n].headers = None THEN Raise(m, "TypeError")
    ELSE IF ~Contains(HeaderSeq(m, n), key) THEN Raise(m, "KeyError")
    ELSE ColumnFrom(m, n, ListIndex(HeaderSeq(m, n), key), 1, <<>>)

\* Dataset.get_col(index)
get_col(m, n, index) == ColumnFrom(m, n, index, 1, <<>>)

\* Dataset.__setitem__(key, value) for an integer key.
setitem(m, n, key, value) ==
    IF ~_validate(m, n, value, <<>>) THEN Raise(m, "InvalidDimensions")
    ELSE IF ~InRange(height(m, n), key) THEN Raise(m, "IndexError")
    ELSE Ok([NewRow(m, value, {}) EXCEPT
                !.ds[n].data[PyIndex(height(m, n), key) + 1] = Len(m.rows) + 1], NoRet)

\* Dataset.__delitem__(key) for an integer key.
delitem_int(m, n, key) ==
    IF ~InRange(height(m, n), key) THEN Raise(m, "IndexError")
    ELSE Ok([m EXCEPT !.ds[n].data = ListDel(@, key)], NoRet)

\* The loop of __delitem__ for a string key: del row[pos] on every Row
\* object in turn; a raise leaves the rows deleted from so far.
RECURSIVE DelColLoop(_, _, _, _)
DelColLoop(m, n, pos, i) ==
    IF i > height(m, n) THEN Ok(m, NoRet)
    ELSE IF ~InRange(Len(Cells(m, n, i)), pos) THEN Raise(m, "IndexError")
    ELSE DelColLoop([m EXCEPT !.rows[m.ds[n].data[i]].cells = ListDel(@, pos)], n, pos, i + 1)

\* Dataset.__delitem__(key) for a string key: the header is deleted from the
\* header list in place, then the cell from every row.
delitem_str(m, n, key) ==
    IF m.ds[n].headers = None THEN Raise(m, "TypeError")
    ELSE IF ~Contains(HeaderSeq(m, n), key) THEN Raise(m, "KeyError")
    ELSE LET pos == ListIndex(HeaderSeq(m, n), key)
         IN DelColLoop([m EXCEPT !.lists[m.ds[n].headers] = ListDel(@, pos)], n, pos, 1)

\* Dataset.lpop / Dataset.rpop / Dataset.pop
lpop(m, n) ==
    LET cache == getitem_int(m, n, 0)
    IN IF cache.exc # "None" THEN cache
       ELSE Ok(delitem_int(m, n, 0).m, cache.ret)

rpop(m, n) ==
    LET cache == getitem_int(m, n, -1)
    IN IF cache.exc # "None" THEN cache
       ELSE Ok(delitem_int(m, n, -1).m, cache.ret)

pop(m, n) == rpop(m, n)

\* Dataset.wipe
wipe(m, n) == [m EXCEPT !.ds[n].data = <<>>, !.ds[n].headers = None]

\* remove_duplicates with the rows kept being the last occurrences.
remove_duplicates_keep_last(m, n) ==
    LET d == m.ds[n].data
        seenAfter(i) == \E j \in (i + 1)..Len(d) : m.rows[d[j]].cells = m.rows[d[i]].cells
        RECURSIVE Keep(_, _)
        Keep(i, acc) ==
            IF i > Len(d) THEN acc
            ELSE Keep(i + 1, IF seenAfter(i) THEN acc ELSE Append(acc, d[i]))
    IN Ok([m EXCEPT !.ds[n].data = Keep(1, <<>>)], NoRet)

\* Dataset.remove_duplicates: the rows whose tuple of cells was not seen in
\* an earlier row, written back into the same list.
remove_duplicates(m, n) ==
    LET d == m.ds[n].data
        seenBefore(i) == \E j \in 1..(i - 1) : m.rows[d[j]].cells = m.rows[d[i]].cells
        RECURSIVE Keep(_, _)
        Keep(i, acc) ==
            IF i > Len(d) THEN acc
            ELSE Keep(i + 1, IF seenBefore(i) THEN acc ELSE Append(acc, d[i]))
    IN Ok([m EXCEPT !.ds[n].data = Keep(1, <<>>)], NoRet)

(***************************************************************************)
(* Columns.  A column argument is [callable, items, f]: a literal sequence *)
(* of cell values (items), or a one-argument function of a Row named f.    *)
(***************************************************************************)
NoHeader == "None"
Funcs == {"first"}

Literal(items) == [callable |-> FALSE, items |-> items, f |-> "None"]
Callable(f) == [callable |-> TRUE, items |-> <<>>, f |-> f]

\* The dynamic-column functions: "first" is lambda row: row[0].
ApplyFunc(f, row) ==
    IF Len(row.cells) = 0 THEN [exc |-> "IndexError", v |-> 0]
    ELSE [exc |-> "None", v |-> row.cells[1]]

\* list(map(col, self._data))
RECURSIVE MapFunc(_, _, _, _, _)
MapFunc(m, n, f, i, acc) ==
    IF i > height(m, n) THEN Ok(m, acc)
    ELSE LET r == ApplyFunc(f, RowObj(m, n, i))
         IN IF r.exc # "None" THEN Raise(m, r.exc)
            ELSE MapFunc(m, n, f, i + 1, Append(acc, r.v))

\* Dataset._clean_col(col): with headers set the first element is popped
\* and put back in front; the cells of a literal column are not callable.
_clean_col(m, n, col) ==
    IF Len(HeaderSeq(m, n)) > 0
    THEN (IF Len(col) = 0 THEN Raise(m, "IndexError")
          ELSE Ok(m, <<Head(col)>> \o Tail(col)))
    ELSE Ok(m, col)

\* The loop of insert_col over a non-empty Dataset: row.insert(index, col[i]).
RECURSIVE InsertColLoop(_, _, _, _, _)
InsertColLoop(m, n, index, col, i) ==
    IF i > height(m, n) THEN Ok(m, NoRet)
    ELSE IF i > Len(col) THEN Raise(m, "IndexError")
    ELSE InsertColLoop([m EXCEPT !.rows[m.ds[n].data[i]].cells = ListInsert(@, index, col[i])],
                       n, index, col, i + 1)

\* self._data = [Row([row]) for row in col]
SeedRows(m, n, col) ==
    [m EXCEPT !.rows = @ \o [i \in 1..Len(col) |-> Row(<<col[i]>>, {})],
              !.ds[n].data = [i \in 1..Len(col) |-> Len(m.rows) + i]]

\* insert_col that does not ask for a header name when headers are set.
insert_col_unnamed(m, n, index, col, header) ==
    LET mapped == IF col.callable THEN MapFunc(m, n, col.f, 1, <<>>) ELSE Ok(m, col.items)
        cleaned == _clean_col(m, n, mapped.ret)
        c == cleaned.ret
        hasHeaders == Len(HeaderSeq(m, n)) > 0
        m1 == IF hasHeaders
              THEN [m EXCEPT !.lists[m.ds[n].headers] = ListInsert(@, index, header)]
              ELSE m
    IN IF mapped.exc # "None" THEN mapped
       ELSE IF cleaned.exc # "None" THEN cleaned
       ELSE IF ~_validate(m, n, <<>>, c) THEN Raise(m, "InvalidDimensions")
       ELSE IF hasHeaders /\ height(m, n) = 0 /\ Len(c) # 0 THEN Raise(m, "InvalidDimensions")
       ELSE IF height(m1, n) # 0 /\ width(m1, n) # 0 THEN InsertColLoop(m1, n, index, c, 1)
       ELSE Ok(SeedRows(m1, n, c), NoRet)

\* Dataset.insert_col(index, col, header)
insert_col(m, n, index, col, header) ==
    LET mapped == IF col.callable THEN MapFunc(m, n, col.f, 1, <<>>) ELSE Ok(m, col.items)
        cleaned == _clean_col(m, n, mapped.ret)
        c == cleaned.ret
        hasHeaders == Len(HeaderSeq(m, n)) > 0
        m1 == IF hasHeaders
              THEN [m EXCEPT !.lists[m.ds[n].headers] = ListInsert(@, index, header)]
              ELSE m
    IN IF mapped.exc # "None" THEN mapped
       ELSE IF cleaned.exc # "None" THEN cleaned
       ELSE IF ~_validate(m, n, <<>>, c) THEN Raise(m, "InvalidDimensions")
       ELSE IF hasHeaders /\ header = NoHeader THEN Raise(m, "HeadersNeeded")
       ELSE IF hasHeaders /\ height(m, n) = 0 /\ Len(c) # 0 THEN Raise(m, "InvalidDimensions")
       ELSE IF height(m1, n) # 0 /\ width(m1, n) # 0 THEN InsertColLoop(m1, n, index, c, 1)
       ELSE Ok(SeedRows(m1, n, c), NoRet)

\* Dataset.rpush_col / Dataset.lpush_col / Dataset.append_col
rpush_col(m, n, col, header) == insert_col(m, n, width(m, n), col, header)
lpush_col(m, n, col, header) == insert_col(m, n, 0, col, header)
append_col(m, n, col, header) == rpush_col(m, n, col, header)

(***************************************************************************)
(* The dict property.  A record (OrderedDict) is [keys, vals]: its keys in *)
(* insertion order and the value of each.  The value assigned to dict is   *)
(* [kind, items]: a list whose first element is a list ("list"), a dict    *)
(* ("dict") or something else ("other"); an item is written [keys, vals]   *)
(* in each case, a plain list having no keys.                              *)
(***************************************************************************)
RECURSIVE AppendRows(_, _, _)
AppendRows(m, n, rs) ==
    IF Len(rs) = 0 THEN Ok(m, NoRet)
    ELSE LET o == append(m, n, Head(rs), {})
         IN IF o.exc # "None" THEN o ELSE AppendRows(o.m, n, Tail(rs))

\* _set_dict that appends to what the Dataset holds, with no wipe.
_set_dict_unwiped(m, n, pickle) ==
    IF Len(pickle.items) = 0 THEN Ok(m, NoRet)
    ELSE IF pickle.kind = "list"
    THEN AppendRows(m, n, [i \in 1..Len(pickle.items) |-> pickle.items[i].vals])
    ELSE IF pickle.kind = "dict"
    THEN LET h == _set_headers(m, n, pickle.items[1].keys)
         IN IF h.exc # "None" THEN h
            ELSE AppendRows(h.m, n, [i \in 1..Len(pickle.items) |-> pickle.items[i].vals])
    ELSE Raise(m, "UnsupportedFormat")

\* Dataset._set_dict(pickle)
_set_dict(m, n, pickle) ==
    IF Len(pickle.items) = 0 THEN Ok(m, NoRet)
    ELSE IF pickle.kind = "list"
    THEN AppendRows(wipe(m, n), n, [i \in 1..Len(pickle.items) |-> pickle.items[i].vals])
    ELSE IF pickle.kind = "dict"
    THEN LET h == _set_headers(wipe(m, n), n, pickle.items[1].keys)
         IN IF h.exc # "None" THEN h
            ELSE AppendRows(h.m, n, [i \in 1..Len(pickle.items) |-> pickle.items[i].vals])
    ELSE Raise(m, "UnsupportedFormat")

\* The distinct elements of s, each at the place of its first occurrence.
RECURSIVE DedupFrom(_, _, _)
DedupFrom(s, i, acc) ==
    IF i > Len(s) THEN acc
    ELSE DedupFrom(s, i + 1, IF Contains(acc, s[i]) THEN acc ELSE Append(acc, s[i]))

Dedup(s) == DedupFrom(s, 1, <<>>)

(***************************************************************************)
(* Formatters and packaging.  A formatter is [none, col, handler]: the     *)
(* column it selects (none = TRUE for the whole row) and the name of the   *)
(* callback.  The selector given to add_formatter is [kind, name, index]:  *)
(* a header ("str"), a column number ("int") or None ("None").             *)
(***************************************************************************)
Handlers == {"swap", "one"}

\* The callbacks: "swap" is lambda v: 3 - v, "one" is lambda v: 1.
ApplyHandler(h, v) == IF h = "swap" THEN 3 - v ELSE 1

ByName(name) == [kind |-> "str", name |-> name, index |-> 0]
ByIndex(index) == [kind |-> "int", name |-> "None", index |-> index]
ByNone == [kind |-> "None", name |-> "None", index |-> 0]

\* Dataset.add_formatter(col, handler).  `None > self.width` is a TypeError.
add_formatter(m, n, col, handler) ==
    IF col.kind = "str" /\ m.ds[n].headers = None THEN Raise(m, "TypeError")
    ELSE IF col.kind = "str" /\ ~Contains(HeaderSeq(m, n), col.name) THEN Raise(m, "KeyError")
    ELSE IF col.kind = "None" THEN Raise(m, "TypeError")
    ELSE LET c == IF col.kind = "str" THEN ListIndex(HeaderSeq(m, n), col.name) ELSE col.index
         IN IF ~(c > width(m, n))
            THEN Ok([m EXCEPT !.lists[m.ds[n].formatters] =
                                  Append(@, [none |-> FALSE, col |-> c, handler |-> handler])],
                    TRUE)
            ELSE Raise(m, "InvalidDatasetIndex")

\* One formatter on one row of _data: _data[row_i][...] = callback(...).
\* _data is list(self._data), so _data[row_i] is the Row object the Dataset
\* holds.
FormatRow(m, id, f) ==
    IF f.none
    THEN Ok([m EXCEPT !.rows[id].cells = [j \in 1..Len(@) |-> ApplyHandler(f.handler, @[j])]],
            NoRet)
    ELSE IF ~InRange(Len(m.rows[id].cells), f.col) THEN Raise(m, "InvalidDatasetIndex")
    ELSE Ok([m EXCEPT !.rows[id].cells[PyIndex(Len(m.rows[id].cells), f.col) + 1] =
                          ApplyHandler(f.handler, @)], NoRet)

\* The loop "Execute formatters" of _package: rows in order, and on each
\* row the formatters in order.
RECURSIVE ExecuteFormatters(_, _, _, _)
ExecuteFormatters(m, n, i, k) ==
    IF i > height(m, n) THEN Ok(m, NoRet)
    ELSE IF k > Len(FormatterSeq(m, n)) THEN ExecuteFormatters(m, n, i + 1, 1)
    ELSE LET o == FormatRow(m, m.ds[n].data[i], FormatterSeq(m, n)[k])
         IN IF o.exc # "None" THEN o ELSE ExecuteFormatters(o.m, n, i, k + 1)

\* OrderedDict(zip(headers, row)): zip stops at the shorter of the two; a
\* key keeps the place of its first pair and the value of its last.
ZipDict(hs, row) ==
    LET k == IF Len(hs) < Len(row) THEN Len(hs) ELSE Len(row)
        keys == Dedup(SubSeq(hs, 1, k))
        last(key) == CHOOSE i \in 1..k : hs[i] = key /\ \A j \in (i + 1)..k : hs[j] # key
    IN [keys |-> keys, vals |-> [i \in 1..Len(keys) |-> row[last(keys[i])]]]

PlainList(row) == [keys |-> <<>>, vals |-> row]

\* Dataset._package(dicts): [kind, items], a list of records ("dicts") or a
\* list of lists ("lists").
_package(m, n, dicts) ==
    LET f == ExecuteFormatters(m, n, 1, 1)
        hs == HeaderSeq(f.m, n)
    IN IF f.exc # "None" THEN f
       ELSE IF Len(hs) > 0
       THEN (IF dicts
             THEN Ok(f.m, [kind |-> "dicts",
                           items |-> [i \in 1..height(f.m, n) |-> ZipDict(hs, Cells(f.m, n, i))]])
             ELSE Ok(f.m, [kind |-> "lists",
                           items |-> <<PlainList(hs)>>
                                     \o [i \in 1..height(f.m, n) |-> PlainList(Cells(f.m, n, i))]]))
       ELSE Ok(f.m, [kind |-> "lists",
                     items |-> [i \in 1..height(f.m, n) |-> PlainList(Cells(f.m, n, i))]])

\* Dataset._get_dict
_get_dict(m, n) == _package(m, n, TRUE)

\* CSVFormat.export_stream_set, reached by Dataset.export('csv'): the rows
\* handed to the csv writer, one line of the output each.
export_stream_set(m, n) == _package(m, n, FALSE)

(***************************************************************************)
(* sort.                                                                   *)
(***************************************************************************)
\* item[key] on a record: the value under key, KeyError without it.
HasKey(item, key) == Contains(item.keys, key)
ItemGet(item, key) == item.vals[ListIndex(item.keys, key) + 1]

\* sorted(items, key=, reverse=): stable in both directions.  pairs is the
\* sequence of [k, item]; each goes behind the ones that do not sort after it.
Before(a, b, reverse) == IF reverse THEN a > b ELSE a < b

RECURSIVE SortedFrom(_, _, _, _)
SortedFrom(pairs, reverse, i, acc) ==
    IF i > Len(pairs) THEN acc
    ELSE LET pos == Cardinality({j \in 1..Len(acc) : ~Before(pairs[i].k, acc[j].k, reverse)})
         IN SortedFrom(pairs, reverse, i + 1,
                       SubSeq(acc, 1, pos) \o <<pairs[i]>> \o SubSeq(acc, pos + 1, Len(acc)))

\* A sort that gets the descending order by reversing the ascending one.
sorted_by_reversal(pairs, reverse) ==
    LET up == SortedFrom(pairs, FALSE, 1, <<>>)
    IN IF reverse THEN [i \in 1..Len(up) |-> up[Len(up) + 1 - i]] ELSE up

sorted(pairs, reverse) == SortedFrom(pairs, reverse, 1, <<>>)

\* The loop of sort that fills _dset from the sorted items.
RECURSIVE SortAppend(_, _, _, _)
SortAppend(m, hs, items, i) ==
    IF i > Len(items) THEN Ok(m, NoRet)
    ELSE IF Len(hs) > 0 /\ \E j \in 1..Len(hs) : ~HasKey(items[i], hs[j]) THEN Raise(m, "KeyError")
    ELSE LET row == IF Len(hs) > 0 THEN [j \in 1..Len(hs) |-> ItemGet(items[i], hs[j])]
                    ELSE items[i].vals
             o == append(m, "_dset", row, {})
         IN IF o.exc # "None" THEN o ELSE SortAppend(o.m, hs, items, i + 1)

\* The method returns the local _dset: the caller's dset is that object.
Return(m) == [m EXCEPT !.ds["dset"] = m.ds["_dset"], !.ds["_dset"] = NoDataset]

\* The method returns None: the caller's dset is no Dataset.
ReturnNone(m) == [m EXCEPT !.ds["dset"] = NoDataset, !.ds["_dset"] = NoDataset]

\* Dataset.sort(col, reverse)
sort(m, n, col, reverse) ==
    LET hs == HeaderSeq(m, n)
        byKey == Len(hs) > 0 \/ col.kind = "str"
        key == IF col.kind = "str" THEN col.name ELSE hs[PyIndex(Len(hs), col.index) + 1]
        p == _get_dict(m, n)
        items == p.ret.items
        keyOf(item) == IF byKey THEN ItemGet(item, key)
                       ELSE item.vals[PyIndex(Len(item.vals), col.index) + 1]
        made == Dataset_init(p.m, "_dset", <<>>, hs, m.ds[n].title)
        filled == SortAppend(made.m, hs,
                             LET s == sorted([i \in 1..Len(items) |-> [k |-> keyOf(items[i]), item |-> items[i]]],
                                             reverse)
                             IN [i \in 1..Len(s) |-> s[i].item], 1)
    IN IF col.kind = "str" /\ Len(hs) = 0 THEN Raise(m, "HeadersNeeded")
       ELSE IF col.kind = "int" /\ Len(hs) > 0 /\ ~InRange(Len(hs), col.index) THEN Raise(m, "IndexError")
       ELSE IF p.exc # "None" THEN p
       ELSE IF byKey /\ \E i \in 1..Len(items) : ~HasKey(items[i], key) THEN Raise(p.m, "KeyError")
       ELSE IF ~byKey /\ \E i \in 1..Len(items) : ~InRange(Len(items[i].vals), col.index)
       THEN Raise(p.m, "IndexError")
       ELSE IF made.exc # "None" THEN Raise(p.m, made.exc)
       ELSE IF filled.exc # "None" THEN Raise(p.m, filled.exc)
       ELSE Ok(Return(filled.m), NoRet)

(***************************************************************************)
(* filter, stack and stack_cols.  copy(self) is a shallow copy: the new    *)
(* Dataset refers to the header list, the formatter list, the separator    *)
(* list and the Row objects of the one it was copied from.                 *)
(***************************************************************************)
Tags == {"t"}

\* The tag argument of has_tag and filter is [kind, name, names]: None, one
\* string (name), or a collection of strings (names).
NoTag == [kind |-> "None", name |-> "None", names |-> {}]
StrTag(t) == [kind |-> "str", name |-> t, names |-> {}]
TagList(ts) == [kind |-> "list", name |-> "None", names |-> ts]

\* has_tag where a collection has to be wholly among the tags of the Row.
has_all_tags(r, tag) ==
    IF tag.kind = "None" THEN FALSE
    ELSE IF tag.kind = "str" THEN tag.name \in r.tags
    ELSE tag.names \subseteq r.tags

\* Row.has_tag(tag)
has_tag(r, tag) ==
    IF tag.kind = "None" THEN FALSE
    ELSE IF tag.kind = "str" THEN tag.name \in r.tags
    ELSE Cardinality(tag.names \cap r.tags) # 0

\* copy(self), bound to the local _dset.
copy(m, n) == [m EXCEPT !.ds["_dset"] = m.ds[n]]

\* Dataset.filter(tag)
filter(m, n, tag) ==
    LET c == copy(m, n)
    IN Ok(Return([c EXCEPT !.ds["_dset"].data =
                               SelectSeq(@, LAMBDA id : has_tag(c.rows[id], tag))]),
          NoRet)

\* stack with no comparison of the widths.
stack_unchecked(m, n, other) ==
    Ok(Return([copy(m, n) EXCEPT !.ds["_dset"].data = @ \o m.ds[other].data]), NoRet)

\* Dataset.stack(other)
stack(m, n, other) ==
    IF width(m, n) # width(m, other) THEN Raise(m, "InvalidDimensions")
    ELSE Ok(Return([copy(m, n) EXCEPT !.ds["_dset"].data = @ \o m.ds[other].data]), NoRet)

\* One of the two loops of stack_cols: _dset.append_col(col=src[column])
\* for each column of cols.
RECURSIVE StackColsLoop(_, _, _, _)
StackColsLoop(m, src, cols, i) ==
    IF i > Len(cols) THEN Ok(m, NoRet)
    ELSE LET g == getitem_str(m, src, cols[i])
             o == append_col(m, "_dset", Literal(g.ret), NoHeader)
         IN IF g.exc # "None" THEN g
            ELSE IF o.exc # "None" THEN o
            ELSE StackColsLoop(o.m, src, cols, i + 1)

\* Dataset.stack_cols(other)
stack_cols(m, n, other) ==
    LET hs == HeaderSeq(m, n)
        ho == HeaderSeq(m, other)
        made == Dataset_init(m, "_dset", <<>>, <<>>, "None")
        mine == StackColsLoop(made.m, n, hs, 1)
        theirs == StackColsLoop(mine.m, other, ho, 1)
        set == _set_headers(theirs.m, "_dset", hs \o ho)
    IN IF (Len(hs) > 0 \/ Len(ho) > 0) /\ (Len(hs) = 0 \/ Len(ho) = 0)
       THEN Raise(m, "HeadersNeeded")
       ELSE IF height(m, n) # height(m, other) THEN Raise(m, "InvalidDimensions")
       ELSE IF m.ds[n].headers = None THEN Raise(m, "TypeError")
       ELSE IF mine.exc # "None" THEN Raise(m, mine.exc)
       ELSE IF theirs.exc # "None" THEN Raise(m, theirs.exc)
       ELSE IF set.exc # "None" THEN Raise(m, set.exc)
       ELSE Ok(Return(set.m), NoRet)

\* The rows and cols arguments of subset are [none, items]: None (the
\* default) or a list of row numbers / of header names.
NoArg == [none |-> TRUE, items |-> <<>>]
ListArg(items) == [none |-> FALSE, items |-> items]

\* The loop of subset over the rows of the source: the cells under the
\* headers of _dset, appended when the number of the row was asked for.
RECURSIVE SubsetLoop(_, _, _, _)
SubsetLoop(m, n, rws, i) ==
    LET hs == HeaderSeq(m, n)
        keys == HeaderSeq(m, "_dset")
        row == Cells(m, n, i)
        short == \E k \in 1..Len(keys) : ListIndex(hs, keys[k]) >= Len(row)
        data_row == [k \in 1..Len(keys) |-> row[ListIndex(hs, keys[k]) + 1]]
        o == append(m, "_dset", data_row, {})
    IN IF i > height(m, n) THEN Ok(m, NoRet)
       ELSE IF m.ds["_dset"].headers = None THEN Raise(m, "TypeError")
       ELSE IF \E k \in 1..Len(keys) : ~Contains(hs, keys[k]) THEN Raise(m, "KeyError")
       ELSE IF short THEN Raise(m, "IndexError")
       ELSE IF ~Contains(rws, i - 1) THEN SubsetLoop(m, n, rws, i + 1)
       ELSE IF o.exc # "None" THEN o
       ELSE SubsetLoop(o.m, n, rws, i + 1)

\* Dataset.subset(rows, cols)
subset(m, n, rws, cls) ==
    LET hs == HeaderSeq(m, n)
        noHeaders == m.ds[n].headers = None
        rows1 == IF rws.none THEN [i \in 1..height(m, n) |-> i - 1] ELSE rws.items
        cols1 == IF cls.none THEN hs ELSE cls.items
        rows2 == SelectSeq(rows1, LAMBDA r : r \in 0..(height(m, n) - 1))
        cols2 == SelectSeq(cols1, LAMBDA h : Contains(hs, h))
        made == Dataset_init(m, "_dset", <<>>, <<>>, "None")
        set == _set_headers(made.m, "_dset", cols2)
        filled == SubsetLoop(set.m, n, rows2, 1)
    IN IF height(m, n) = 0 THEN Ok(ReturnNone(m), NoRet)
       ELSE IF cls.none /\ noHeaders THEN Raise(m, "TypeError")
       ELSE IF Len(cols1) > 0 /\ noHeaders THEN Raise(m, "TypeError")
       ELSE IF set.exc # "None" THEN Raise(m, set.exc)
       ELSE IF filled.exc # "None" THEN Raise(m, filled.exc)
       ELSE Ok(Return(filled.m), NoRet)

\* self.headers[i] = name, through the list the headers getter hands out.
headers_setitem(m, n, i, name) ==
    IF m.ds[n].headers = None THEN Raise(m, "TypeError")
    ELSE IF ~InRange(Len(HeaderSeq(m, n)), i) THEN Raise(m, "IndexError")
    ELSE Ok([m EXCEPT !.lists[m.ds[n].headers][PyIndex(Len(HeaderSeq(m, n)), i) + 1] = name],
            NoRet)

(***************************************************************************)
(* transpose.  The Dataset it builds holds header names as cells and cells *)
(* as header names, so values of both kinds meet in one list.              *)
(***************************************************************************)
\* a == b between two Python values that need not be of one type.
PyEq(a, b) == ToString(a) = ToString(b)

\* The loop of transpose over enumerate(self.headers); index counts from 0.
RECURSIVE TransposeLoop(_, _, _)
TransposeLoop(m, n, index) ==
    LET hs == HeaderSeq(m, n)
        g == get_col(m, n, index)
        o == append(m, "_dset", <<hs[index + 1]>> \o g.ret, {})
    IN IF index >= Len(hs) THEN Ok(m, NoRet)
       ELSE IF PyEq(hs[index + 1], hs[1]) THEN TransposeLoop(m, n, index + 1)
       ELSE IF g.exc # "None" THEN g
       ELSE IF o.exc # "None" THEN o
       ELSE TransposeLoop(o.m, n, index + 1)

\* Dataset.transpose()
transpose(m, n) ==
    LET hs == HeaderSeq(m, n)
        made == Dataset_init(m, "_dset", <<>>, <<>>, "None")
        first == getitem_str(made.m, n, hs[1])
        set == _set_headers(made.m, "_dset", <<hs[1]>> \o first.ret)
        filled == TransposeLoop(set.m, n, 0)
    IN IF height(m, n) = 0 THEN Ok(ReturnNone(m), NoRet)
       ELSE IF m.ds[n].headers = None THEN Raise(m, "TypeError")
       ELSE IF first.exc # "None" THEN Raise(m, first.exc)
       ELSE IF set.exc # "None" THEN Raise(m, set.exc)
       ELSE IF filled.exc # "None" THEN Raise(m, filled.exc)
       ELSE Ok(Return(filled.m), NoRet)

(***************************************************************************)
(* Unreferenced objects are collected and the live ones renumbered in the  *)
(* order the Datasets reach them, so that a state is the object graph and  *)
(* not the allocation history.                                             *)
(***************************************************************************)
ListRefs(d) == SelectSeq(<<d.headers, d.formatters, d.separators>>, LAMBDA x : x # None)

Renumber(m, ro, lo) ==
    [rows  |-> [i \in 1..Len(ro) |-> m.rows[ro[i]]],
     lists |-> [i \in 1..Len(lo) |-> m.lists[lo[i]]],
     ds    |-> [n \in DsNames |->
                  [exists |-> m.ds[n].exists,
                   data |-> [k \in 1..Len(m.ds[n].data) |-> ListIndex(ro, m.ds[n].data[k]) + 1],
                   headers |-> IF m.ds[n].headers = None THEN None
                               ELSE ListIndex(lo, m.ds[n].headers) + 1,
                   formatters |-> IF m.ds[n].formatters = None THEN None
                                  ELSE ListIndex(lo, m.ds[n].formatters) + 1,
                   separators |-> IF m.ds[n].separators = None THEN None
                                  ELSE ListIndex(lo, m.ds[n].separators) + 1,
                   title |-> m.ds[n].title]]]

Collect(m) ==
    Renumber(m,
             Dedup(m.ds["self"].data \o m.ds["other"].data \o m.ds["dset"].data),
             Dedup(ListRefs(m.ds["self"]) \o ListRefs(m.ds["other"]) \o ListRefs(m.ds["dset"])))

\* The caller's view of a finished call: the memory, the operation, what it
\* raised and what it returned.
\* The step of a call with outcome o that leaves the registry and stream i.
CommitIO(o, name, i) ==
    /\ op' = name
    /\ \E out \in {o} :
          /\ raised' = out.exc
          /\ ret' = out.ret
          /\ \E c \in {Collect(out.m)} :
                /\ rows' = c.rows
                /\ lists' = c.lists
                /\ ds' = c.ds
    /\ io' = i

Commit(o, name) == CommitIO(o, name, io)

(***************************************************************************)
(* Calls.                                                                  *)
(***************************************************************************)
Call_insert(n, index, row) ==
    /\ ds[n].exists
    /\ height(Mem, n) < MaxHeight
    /\ Commit(insert(Mem, n, index, row, {}), "insert")

Call_append(n, row) ==
    /\ ds[n].exists
    /\ height(Mem, n) < MaxHeight
    /\ Commit(append(Mem, n, row, {}), "append")

Call_lpush(n, row) ==
    /\ ds[n].exists
    /\ height(Mem, n) < MaxHeight
    /\ Commit(lpush(Mem, n, row, {}), "lpush")

Call_extend(n, rs) ==
    /\ ds[n].exists
    /\ height(Mem, n) + Len(rs) <= MaxHeight
    /\ Commit(extend(Mem, n, rs, {}), "extend")

Call_setitem(n, key, value) ==
    /\ ds[n].exists
    /\ Commit(setitem(Mem, n, key, value), "__setitem__")

Call_delitem_int(n, key) ==
    /\ ds[n].exists
    /\ Commit(delitem_int(Mem, n, key), "__delitem__")

Call_delitem_str(n, key) ==
    /\ ds[n].exists
    /\ Commit(delitem_str(Mem, n, key), "__delitem__")

Call_pop(n) ==
    /\ ds[n].exists
    /\ Commit(pop(Mem, n), "pop")

Call_lpop(n) ==
    /\ ds[n].exists
    /\ Commit(lpop(Mem, n), "lpop")

\* No row and no header list is at the bound yet.
CanWiden(n) ==
    /\ \A i \in 1..height(Mem, n) : Len(Cells(Mem, n, i)) < MaxWidth
    /\ Len(HeaderSeq(Mem, n)) < MaxWidth

Call_insert_col(n, index, col, header) ==
    /\ ds[n].exists
    /\ CanWiden(n)
    /\ Len(col.items) <= MaxHeight
    /\ Commit(insert_col(Mem, n, index, col, header), "insert_col")

Call_append_col(n, col, header) ==
    /\ ds[n].exists
    /\ CanWiden(n)
    /\ Len(col.items) <= MaxHeight
    /\ Commit(append_col(Mem, n, col, header), "append_col")

Call_set_headers(n, collection) ==
    /\ ds[n].exists
    /\ Commit(_set_headers(Mem, n, collection), "headers")

Call_set_dict(n, pickle) ==
    /\ ds[n].exists
    /\ Len(pickle.items) <= MaxHeight
    /\ Commit(_set_dict(Mem, n, pickle), "dict")

Call_remove_duplicates(n) ==
    /\ ds[n].exists
    /\ Commit(remove_duplicates(Mem, n), "remove_duplicates")

(***************************************************************************)
(* Inputs.                                                                 *)
(***************************************************************************)
IndexInputs == 0..MaxHeight
KeyInputs == (-1)..MaxHeight
ColInputs == {Literal(c) : c \in SeqsUpTo(Vals, MaxHeight)} \cup {Callable(f) : f \in Funcs}
HeaderArgs == HeaderNames \cup {NoHeader}

\* The values assigned to dict: lists of up to MaxHeight plain lists, or of
\* up to MaxHeight records over the keys "a" and "b".
PlainLists == {[keys |-> <<>>, vals |-> r] : r \in {<<>>, <<1>>, <<2, 1>>}}
Records == {[keys |-> <<>>, vals |-> <<>>], [keys |-> <<"a">>, vals |-> <<1>>],
            [keys |-> <<"a", "b">>, vals |-> <<2, 1>>], [keys |-> <<"b", "a">>, vals |-> <<1, 2>>]}
Pickles ==
    {[kind |-> "list", items |-> p] : p \in SeqsUpTo(PlainLists, MaxHeight)}
    \cup {[kind |-> "dict", items |-> p] : p \in SeqsUpTo(Records, MaxHeight)}
    \cup {[kind |-> "other", items |-> <<[keys |-> <<>>, vals |-> <<>>]>>]}

(***************************************************************************)
(* Spec: a Dataset is constructed from any rows and headers the            *)
(* constructor accepts, and then mutated through its row and column        *)
(* operations.                                                             *)
(***************************************************************************)
Init ==
    \E args \in SeqsUpTo(RowInputs, MaxHeight), hdrs \in HeaderInputs :
        LET o == Dataset_init(EmptyMem, "self", args, hdrs, "None")
            c == Collect(o.m)
        IN /\ o.exc = "None"
           /\ rows = c.rows
           /\ lists = c.lists
           /\ ds = c.ds
           /\ op = "__init__"
           /\ raised = "None"
           /\ ret = NoRet
           /\ io = NoIO

Next ==
    \/ \E index \in IndexInputs, row \in RowInputs : Call_insert("self", index, row)
    \/ \E row \in RowInputs : Call_append("self", row)
    \/ \E row \in RowInputs : Call_lpush("self", row)
    \/ \E rs \in SeqsUpTo(RowInputs, MaxHeight) : Call_extend("self", rs)
    \/ \E key \in KeyInputs, value \in RowInputs : Call_setitem("self", key, value)
    \/ \E key \in KeyInputs : Call_delitem_int("self", key)
    \/ \E key \in HeaderNames : Call_delitem_str("self", key)
    \/ Call_pop("self")
    \/ Call_lpop("self")
    \/ \E index \in 0..MaxWidth, col \in ColInputs, header \in HeaderArgs :
           Call_insert_col("self", index, col, header)
    \/ \E col \in ColInputs, header \in HeaderArgs : Call_append_col("self", col, header)
    \/ \E collection \in HeaderInputs : Call_set_headers("self", collection)
    \/ \E pickle \in Pickles : Call_set_dict("self", pickle)
    \/ Call_remove_duplicates("self")

Spec == Init /\ [][Next]_vars

(***************************************************************************)
(* What a caller observes of the Dataset `self`.                           *)
(***************************************************************************)
DataOf(m, n) == [i \in 1..height(m, n) |-> Cells(m, n, i)]
HeadersOf(m, n) == [set |-> m.ds[n].headers # None, seq |-> HeaderSeq(m, n)]

Height == height(Mem, "self")
Width == width(Mem, "self")
SelfData == DataOf(Mem, "self")
SelfHeaders == HeadersOf(Mem, "self")

Rectangular == Width > 0 => \A i \in 1..Height : Len(SelfData[i]) = Width
Coupled == Len(SelfHeaders.seq) > 0 => Len(SelfHeaders.seq) = Width

\* A table as the documentation describes one: every row has the same
\* positive length, and the headers, when set, have that length.
WellFormed ==
    /\ \A i \in 1..Height : Len(SelfData[i]) = Width /\ Width > 0
    /\ Len(SelfHeaders.seq) > 0 => Len(SelfHeaders.seq) = Width

RowInsertions == {"insert", "append", "lpush"}

(***************************************************************************)
(* SpecRows: the row operations alone, on rows that differ in length only  *)
(* (no row operation reads a cell).                                        *)
(***************************************************************************)
ShapeRows == {[i \in 1..k |-> 1] : k \in 0..MaxWidth}

InitRows ==
    \E args \in SeqsUpTo(ShapeRows, MaxHeight), hdrs \in HeaderInputs :
        LET o == Dataset_init(EmptyMem, "self", args, hdrs, "None")
            c == Collect(o.m)
        IN /\ o.exc = "None"
           /\ rows = c.rows
           /\ lists = c.lists
           /\ ds = c.ds
           /\ op = "__init__"
           /\ raised = "None"
           /\ ret = NoRet
           /\ io = NoIO

NextRows ==
    \/ \E index \in IndexInputs, row \in ShapeRows : Call_insert("self", index, row)
    \/ \E row \in ShapeRows : Call_append("self", row)
    \/ \E row \in ShapeRows : Call_lpush("self", row)
    \/ \E key \in KeyInputs, value \in ShapeRows : Call_setitem("self", key, value)
    \/ \E key \in KeyInputs : Call_delitem_int("self", key)
    \/ Call_pop("self")
    \/ Call_lpop("self")
    \/ \E collection \in HeaderInputs : Call_set_headers("self", collection)

SpecRows == InitRows /\ [][NextRows]_vars

(***************************************************************************)
(* Formatters and the calls that package the data.                         *)
(***************************************************************************)
MaxFormatters == 1

Call_add_formatter(n, col, handler) ==
    /\ ds[n].exists
    /\ Len(FormatterSeq(Mem, n)) < MaxFormatters
    /\ Commit(add_formatter(Mem, n, col, handler), "add_formatter")

Call_package(n, dicts) ==
    /\ ds[n].exists
    /\ Commit(_package(Mem, n, dicts), "_package")

Call_get_dict(n) ==
    /\ ds[n].exists
    /\ Commit(_get_dict(Mem, n), "_get_dict")

Call_export(n) ==
    /\ ds[n].exists
    /\ Commit(export_stream_set(Mem, n), "export")

Call_sort(n, col, reverse) ==
    /\ ds[n].exists
    /\ Commit(sort(Mem, n, col, reverse), "sort")


(***************************************************************************)
(* Sorting alone: a Dataset of rows of two cells (and a short one), with   *)
(* headers that are distinct, repeated or absent, formatters, and sort.    *)
(***************************************************************************)
SortRows == {<<1, 1>>, <<1, 2>>, <<2, 1>>, <<1>>}
SortHeaders == {<<>>, <<"a", "b">>, <<"b", "a">>, <<"a", "a">>, <<"a">>}
SortFormatters == {<<ByIndex(0), "swap">>, <<ByIndex(1), "one">>}
SortBy == {ByName("a"), ByName("b"), ByIndex(0), ByIndex(1)}

InitSort ==
    \E args \in SeqsUpTo(SortRows, MaxHeight), hdrs \in SortHeaders :
        LET o == Dataset_init(EmptyMem, "self", args, hdrs, "t")
            c == Collect(o.m)
        IN /\ o.exc = "None"
           /\ rows = c.rows
           /\ lists = c.lists
           /\ ds = c.ds
           /\ op = "__init__"
           /\ raised = "None"
           /\ ret = NoRet
           /\ io = NoIO

NextSort ==
    \/ \E f \in SortFormatters : Call_add_formatter("self", f[1], f[2])
    \/ \E col \in SortBy, reverse \in BOOLEAN : Call_sort("self", col, reverse)

SpecSort == InitSort /\ [][NextSort]_vars

(***************************************************************************)
(* Transposing: a Dataset, its transpose, and the transpose of that.       *)
(***************************************************************************)
Call_transpose(n) ==
    /\ ds[n].exists
    /\ Commit(transpose(Mem, n), "transpose")

InitTranspose ==
    \E args \in SeqsUpTo(RowInputs, MaxHeight), hdrs \in HeaderInputs :
        LET o == Dataset_init(EmptyMem, "self", args, hdrs, "t")
            c == Collect(o.m)
        IN /\ o.exc = "None"
           /\ rows = c.rows
           /\ lists = c.lists
           /\ ds = c.ds
           /\ op = "__init__"
           /\ raised = "None"
           /\ ret = NoRet
           /\ io = NoIO

NextTranspose ==
    \/ Call_transpose("self")
    \/ Call_transpose("dset")

SpecTranspose == InitTranspose /\ [][NextTranspose]_vars

(***************************************************************************)
(* The calls that return a Dataset, and what the caller then does to the   *)
(* Dataset it got back (dset).                                             *)
(***************************************************************************)
Call_rpush(n, row, tags) ==
    /\ ds[n].exists
    /\ height(Mem, n) < MaxHeight
    /\ Commit(rpush(Mem, n, row, tags), "rpush")

Call_filter(n, tag) ==
    /\ ds[n].exists
    /\ Commit(filter(Mem, n, tag), "filter")

Call_stack(n, other) ==
    /\ ds[n].exists /\ ds[other].exists
    /\ Commit(stack(Mem, n, other), "stack")

Call_stack_cols(n, other) ==
    /\ ds[n].exists /\ ds[other].exists
    /\ Commit(stack_cols(Mem, n, other), "stack_cols")

Call_headers_setitem(n, i, name) ==
    /\ ds[n].exists
    /\ Commit(headers_setitem(Mem, n, i, name), "headers.__setitem__")

ColSelectors ==
    {ByName(h) : h \in HeaderNames} \cup {ByIndex(i) : i \in 0..MaxWidth} \cup {ByNone}
SortCols == {ByName(h) : h \in HeaderNames} \cup {ByIndex(i) : i \in 0..MaxWidth}

InitFmt ==
    \E args \in SeqsUpTo(RowInputs, MaxHeight - 1), hdrs \in HeaderInputs :
        LET o == Dataset_init(EmptyMem, "self", args, hdrs, "t")
            c == Collect(o.m)
        IN /\ o.exc = "None"
           /\ rows = c.rows
           /\ lists = c.lists
           /\ ds = c.ds
           /\ op = "__init__"
           /\ raised = "None"
           /\ ret = NoRet
           /\ io = NoIO

NextFmt ==
    \/ \E col \in ColSelectors, handler \in Handlers : Call_add_formatter("self", col, handler)
    \/ \E dicts \in BOOLEAN : Call_package("self", dicts)
    \/ Call_get_dict("self")
    \/ Call_export("self")
    \/ \E col \in SortCols, reverse \in BOOLEAN : Call_sort("self", col, reverse)
    \/ \E row \in {<<2>>, <<1, 2>>} : Call_rpush("self", row, Tags)
    \/ \E tag \in Tags : Call_filter("self", StrTag(tag))
    \/ Call_stack("self", "self")
    \/ Call_stack_cols("self", "self")

SpecFmt == InitFmt /\ [][NextFmt]_vars

CopyRows == {<<1>>, <<1, 1>>}

InitCopy ==
    \E args \in SeqsUpTo(CopyRows, MaxHeight - 1), hdrs \in {<<>>, <<"a">>, <<"a", "b">>},
       oargs \in {<<<<1>>>>}, ohdrs \in {<<>>, <<"b">>} :
        LET o == Dataset_init(EmptyMem, "self", args, hdrs, "t")
            p == Dataset_init(o.m, "other", oargs, ohdrs, "None")
            c == Collect(p.m)
        IN /\ o.exc = "None"
           /\ p.exc = "None"
           /\ rows = c.rows
           /\ lists = c.lists
           /\ ds = c.ds
           /\ op = "__init__"
           /\ raised = "None"
           /\ ret = NoRet
           /\ io = NoIO

\* What the caller does to the Dataset a transformation returned.
MutateResult ==
    \/ \E header \in {"b", NoHeader} : Call_insert_col("dset", 0, Literal(<<1>>), header)
    \/ Call_append_col("dset", Literal(<<1>>), "b")
    \/ \E key \in HeaderNames : Call_delitem_str("dset", key)
    \/ Call_setitem("dset", 0, <<1>>)
    \/ Call_add_formatter("dset", ByIndex(0), "swap")
    \/ Call_set_headers("dset", <<"b">>)
    \/ Call_headers_setitem("dset", 0, "b")

Transform ==
    \/ \E tag \in Tags : Call_filter("self", StrTag(tag))
    \/ Call_stack("self", "other")
    \/ Call_stack_cols("self", "other")

NextCopy ==
    \/ Call_rpush("self", <<1>>, Tags)
    \/ Transform
    \/ MutateResult

SpecCopy == InitCopy /\ [][NextCopy]_vars

(***************************************************************************)
(* Two Datasets and the calls that join them.                              *)
(***************************************************************************)
JoinRows == {<<1>>, <<2>>, <<1, 2>>}
JoinHeaders == {<<>>, <<"a">>, <<"b">>, <<"a", "b">>}

InitJoin ==
    \E args \in SeqsUpTo(JoinRows, MaxHeight), hdrs \in JoinHeaders,
       oargs \in SeqsUpTo(JoinRows, MaxHeight), ohdrs \in JoinHeaders :
        LET o == Dataset_init(EmptyMem, "self", args, hdrs, "t")
            p == Dataset_init(o.m, "other", oargs, ohdrs, "None")
            c == Collect(p.m)
        IN /\ o.exc = "None"
           /\ p.exc = "None"
           /\ rows = c.rows
           /\ lists = c.lists
           /\ ds = c.ds
           /\ op = "__init__"
           /\ raised = "None"
           /\ ret = NoRet
           /\ io = NoIO

NextJoin ==
    \/ Call_stack("self", "other")
    \/ Call_stack_cols("self", "other")

SpecJoin == InitJoin /\ [][NextJoin]_vars

(***************************************************************************)
(* Columns alone: a Dataset and insert_col with a literal column or a      *)
(* function, with and without a header name.                               *)
(***************************************************************************)
ColIndexes == 0..MaxWidth

InitCols ==
    \E args \in SeqsUpTo(RowInputs, MaxHeight), hdrs \in HeaderInputs :
        LET o == Dataset_init(EmptyMem, "self", args, hdrs, "t")
            c == Collect(o.m)
        IN /\ o.exc = "None"
           /\ rows = c.rows
           /\ lists = c.lists
           /\ ds = c.ds
           /\ op = "__init__"
           /\ raised = "None"
           /\ ret = NoRet
           /\ io = NoIO

NextCols ==
    \E index \in ColIndexes, col \in ColInputs, header \in HeaderArgs :
        Call_insert_col("self", index, col, header)

SpecCols == InitCols /\ [][NextCols]_vars

(***************************************************************************)
(* A Dataset with headers, and insert_col at the front with and without a  *)
(* header name.                                                            *)
(***************************************************************************)
NamedRows == {<<>>, <<1>>, <<2>>, <<1, 2>>}
NamedHeaders == {<<"a">>, <<"b">>, <<"a", "b">>}
NameArgs == {NoHeader, "b"}
NamedCols == {Literal([i \in 1..k |-> 1]) : k \in 0..MaxHeight} \cup {Callable(f) : f \in Funcs}

InitNamed ==
    \E args \in SeqsUpTo(NamedRows, MaxHeight), hdrs \in NamedHeaders :
        LET o == Dataset_init(EmptyMem, "self", args, hdrs, "t")
            c == Collect(o.m)
        IN /\ o.exc = "None"
           /\ rows = c.rows
           /\ lists = c.lists
           /\ ds = c.ds
           /\ op = "__init__"
           /\ raised = "None"
           /\ ret = NoRet
           /\ io = NoIO

NextNamed ==
    \E col \in NamedCols, header \in NameArgs : Call_insert_col("self", 0, col, header)

SpecNamed == InitNamed /\ [][NextNamed]_vars

(***************************************************************************)
(* The dict property read from one Dataset and assigned to another, which  *)
(* is fresh or holds a row and a header of its own.                        *)
(***************************************************************************)
\* The value _package returned, as the dict setter sees it: a list of
\* OrderedDict is a list of dict, a list of list(row) is a list of list.
AsPickle(r) == [kind |-> IF r.kind = "dicts" THEN "dict" ELSE "list", items |-> r.items]

\* other.dict = self.dict, the assignment after the read.
Call_assign_dict(n) ==
    /\ ds[n].exists
    /\ op = "_get_dict"
    /\ raised = "None"
    /\ Commit(_set_dict(Mem, n, AsPickle(ret)), "dict")

DictRows == {<<1>>, <<1, 2>>, <<2, 1>>}
DictHeaders == {<<>>, <<"a">>, <<"a", "b">>, <<"a", "a">>}
DictTargets == {[args |-> <<>>, hdrs |-> <<>>], [args |-> <<<<2>>>>, hdrs |-> <<"b">>]}

InitDict ==
    \E args \in SeqsUpTo(DictRows, MaxHeight), hdrs \in DictHeaders, t \in DictTargets :
        LET o == Dataset_init(EmptyMem, "self", args, hdrs, "t")
            p == Dataset_init(o.m, "other", t.args, t.hdrs, "None")
            c == Collect(p.m)
        IN /\ o.exc = "None"
           /\ p.exc = "None"
           /\ rows = c.rows
           /\ lists = c.lists
           /\ ds = c.ds
           /\ op = "__init__"
           /\ raised = "None"
           /\ ret = NoRet
           /\ io = NoIO

NextDict ==
    \/ Call_add_formatter("self", ByIndex(0), "swap")
    \/ Call_get_dict("self")
    \/ Call_assign_dict("other")

SpecDict == InitDict /\ [][NextDict]_vars

(***************************************************************************)
(* Subsets: a Dataset and subset(rows, cols) with row numbers and header   *)
(* names that exist, that do not, and the defaults.                        *)
(***************************************************************************)
Call_subset(n, rws, cls) ==
    /\ ds[n].exists
    /\ Commit(subset(Mem, n, rws, cls), "subset")

SubsetRows == {NoArg, ListArg(<<>>), ListArg(<<0>>), ListArg(<<1, 0>>), ListArg(<<MaxHeight>>),
               ListArg(<<-1>>), ListArg(<<1, MaxHeight>>)}
SubsetCols == {NoArg, ListArg(<<>>), ListArg(<<"a">>), ListArg(<<"b", "a">>), ListArg(<<"c">>),
               ListArg(<<"c", "b">>)}

InitSubset ==
    \E args \in SeqsUpTo(RowInputs, MaxHeight), hdrs \in HeaderInputs :
        LET o == Dataset_init(EmptyMem, "self", args, hdrs, "t")
            c == Collect(o.m)
        IN /\ o.exc = "None"
           /\ rows = c.rows
           /\ lists = c.lists
           /\ ds = c.ds
           /\ op = "__init__"
           /\ raised = "None"
           /\ ret = NoRet
           /\ io = NoIO

NextSubset == \E rws \in SubsetRows, cls \in SubsetCols : Call_subset("self", rws, cls)

SpecSubset == InitSubset /\ [][NextSubset]_vars

(***************************************************************************)
(* Filtering: rows pushed with tags, and filter by None, by one tag and by *)
(* a collection of tags.                                                   *)
(***************************************************************************)
FilterTags == {"t", "u"}
FilterRows == {<<1>>, <<2>>}
FilterArgs == {NoTag} \cup {StrTag(t) : t \in FilterTags}
                      \cup {TagList(ts) : ts \in SUBSET FilterTags}

InitFilter ==
    \E hdrs \in {<<>>, <<"a">>} :
        LET o == Dataset_init(EmptyMem, "self", <<>>, hdrs, "t")
            c == Collect(o.m)
        IN /\ o.exc = "None"
           /\ rows = c.rows
           /\ lists = c.lists
           /\ ds = c.ds
           /\ op = "__init__"
           /\ raised = "None"
           /\ ret = NoRet
           /\ io = NoIO

NextFilter ==
    \/ \E row \in FilterRows, tags \in SUBSET FilterTags : Call_rpush("self", row, tags)
    \/ \E tag \in FilterArgs : Call_filter("self", tag)

SpecFilter == InitFilter /\ [][NextFilter]_vars

(***************************************************************************)
(* Removing duplicates: two Datasets built from the same rows, up to       *)
(* MaxHeight + 1 of them so that a row can repeat with another row in      *)
(* between; the first is deduplicated, the second keeps the rows.          *)
(***************************************************************************)
DedupRows == {<<1>>, <<2>>, <<1, 2>>, <<1, 1>>}
DedupHeaders == {<<>>, <<"a">>, <<"a", "b">>}

InitDedup ==
    \E args \in SeqsUpTo(DedupRows, MaxHeight + 1), hdrs \in DedupHeaders :
        LET o == Dataset_init(EmptyMem, "self", args, hdrs, "t")
            p == Dataset_init(o.m, "other", args, hdrs, "t")
            c == Collect(p.m)
        IN /\ o.exc = "None"
           /\ p.exc = "None"
           /\ rows = c.rows
           /\ lists = c.lists
           /\ ds = c.ds
           /\ op = "__init__"
           /\ raised = "None"
           /\ ret = NoRet
           /\ io = NoIO

NextDedup == Call_remove_duplicates("self")

SpecDedup == InitDedup /\ [][NextDedup]_vars

(***************************************************************************)
(* The format registry and load without a format.  io = [formats, stream,  *)
(* log]: the registry's formats in registration order, the stream a caller *)
(* holds, and the detect attempts of the last call.  A format is [title,   *)
(* detect, import_set]: its title (also its key) and whether it has the    *)
(* capability.  A stream is [str, lines, pos, sniff]: whether the caller   *)
(* holds a str or a file-like object, the text as lines of cells, the      *)
(* position in lines, and the titles of the formats whose sniffing accepts *)
(* text like this one.                                                     *)
(***************************************************************************)
CSVFormat == [title |-> "csv", detect |-> TRUE, import_set |-> TRUE]
TSVFormat == [title |-> "tsv", detect |-> TRUE, import_set |-> TRUE]
LATEXFormat == [title |-> "latex", detect |-> FALSE, import_set |-> FALSE]

Formats == {CSVFormat, TSVFormat, LATEXFormat}

\* Registry.register(key, format): a new key goes last, a known key keeps
\* its place.
register(formats, fmt) ==
    IF \E k \in 1..Len(formats) : formats[k].title = fmt.title
    THEN [k \in 1..Len(formats) |->
             IF formats[k].title = fmt.title THEN fmt ELSE formats[k]]
    ELSE Append(formats, fmt)

\* Registry.get_format(key)
get_format(formats, key) ==
    IF \E k \in 1..Len(formats) : formats[k].title = key
    THEN [exc |-> "None",
          fmt |-> formats[CHOOSE k \in 1..Len(formats) : formats[k].title = key]]
    ELSE [exc |-> "UnsupportedFormat", fmt |-> LATEXFormat]

\* normalize_input(stream): a str becomes a new StringIO at position 0, a
\* file-like object is returned as it is.
normalize_input(stream) ==
    IF stream.str THEN [stream EXCEPT !.str = FALSE, !.pos = 0] ELSE stream

seek(stream, pos) == [stream EXCEPT !.pos = pos]

\* stream.read(): the lines from the position on; the position is then the
\* end.
read(stream) == SubSeq(stream.lines, stream.pos + 1, Len(stream.lines))

\* fmt.detect(stream): sniffs what stream.read(1024) returns, and does not
\* seek.  No text is never recognized; the rest of a text is recognized as
\* the text is.
detect(fmt, stream) ==
    [ret |-> Len(read(stream)) > 0 /\ fmt.title \in stream.sniff,
     stream |-> seek(stream, Len(stream.lines))]

\* The loop of detect_format from the k-th format on; log gets [title, pos]
\* of each call of detect: the format and the position it found.
RECURSIVE DetectLoop(_, _, _, _)
DetectLoop(formats, k, stream, log) ==
    IF k > Len(formats) THEN [title |-> "None", stream |-> stream, log |-> log]
    ELSE LET fmt == formats[k]
             d == detect(fmt, stream)
             log1 == Append(log, [title |-> fmt.title, pos |-> stream.pos])
         IN IF ~fmt.detect THEN DetectLoop(formats, k + 1, seek(stream, 0), log)
            ELSE IF d.ret
            THEN [title |-> fmt.title, stream |-> seek(d.stream, 0), log |-> log1]
            ELSE DetectLoop(formats, k + 1, seek(d.stream, 0), log1)

\* detect_format(stream)
detect_format(formats, stream) == DetectLoop(formats, 1, normalize_input(stream), <<>>)

\* The loop of CSVFormat.import_set from line i on (0-based, headers=True).
RECURSIVE ImportLoop(_, _, _, _)
ImportLoop(m, n, lines, i) ==
    IF i >= Len(lines) THEN Ok(m, NoRet)
    ELSE LET row == lines[i + 1]
             padded == IF i > 0 /\ Len(row) < width(m, n)
                       THEN row \o [j \in 1..(width(m, n) - Len(row)) |-> ""]
                       ELSE row
             o == IF i = 0 THEN _set_headers(m, n, row)
                  ELSE IF Len(row) > 0 THEN append(m, n, padded, {})
                  ELSE Ok(m, NoRet)
         IN IF o.exc # "None" THEN o ELSE ImportLoop(o.m, n, lines, i + 1)

\* CSVFormat.import_set(dset, in_stream): outcome and the stream it leaves.
import_set(m, n, stream) ==
    [o |-> ImportLoop(wipe(m, n), n, read(stream), 0),
     stream |-> seek(stream, Len(stream.lines))]

\* Dataset.load(in_stream) without a format: outcome, the stream it leaves
\* and the detect attempts.
load(m, n, formats, in_stream) ==
    LET d == detect_format(formats, in_stream)
        g == get_format(formats, d.title)
        i == import_set(m, n, d.stream)
    IN IF g.exc # "None" THEN [o |-> Raise(m, g.exc), stream |-> d.stream, log |-> d.log]
       ELSE IF ~g.fmt.import_set
       THEN [o |-> Raise(m, "UnsupportedFormat"), stream |-> d.stream, log |-> d.log]
       ELSE [o |-> i.o, stream |-> i.stream, log |-> d.log]

\* What the caller's stream is after a call that left the normalized stream
\* s: a str is as it was.
Held(s) == IF io.stream.str THEN io.stream ELSE s

Call_register(fmt) ==
    CommitIO(Ok(Mem, NoRet), "register",
             [io EXCEPT !.formats = register(@, fmt), !.log = <<>>])

Call_detect_format ==
    LET d == detect_format(io.formats, io.stream)
    IN CommitIO(Ok(Mem, d.title), "detect_format",
                [io EXCEPT !.stream = Held(d.stream), !.log = d.log])

Call_load(n) ==
    /\ ds[n].exists
    /\ LET l == load(Mem, n, io.formats, io.stream)
       IN CommitIO(l.o, "load", [io EXCEPT !.stream = Held(l.stream), !.log = l.log])

\* stream.seek(pos) by the caller, on a file-like object.
Call_seek(pos) ==
    /\ ~io.stream.str
    /\ pos \in 0..Len(io.stream.lines)
    /\ CommitIO(Ok(Mem, NoRet), "seek", [io EXCEPT !.stream = seek(@, pos), !.log = <<>>])

StreamLines == SeqsUpTo({<<"a">>, <<"a", "b">>}, MaxHeight)
Sniffs == SUBSET {"csv", "tsv"}

InitDetect ==
    \E lines \in StreamLines, sniff \in Sniffs, str \in BOOLEAN :
        LET o == Dataset_init(EmptyMem, "self", << <<"1">> >>, <<"a">>, "t")
            c == Collect(o.m)
        IN /\ rows = c.rows
           /\ lists = c.lists
           /\ ds = c.ds
           /\ op = "__init__"
           /\ raised = "None"
           /\ ret = NoRet
           /\ io = [formats |-> <<>>,
                    stream |-> [str |-> str, lines |-> lines, pos |-> 0, sniff |-> sniff],
                    log |-> <<>>]

NextDetect ==
    \/ \E fmt \in Formats : Call_register(fmt)
    \/ \E pos \in 0..MaxHeight : Call_seek(pos)
    \/ Call_detect_format
    \/ Call_load("self")

SpecDetect == InitDetect /\ [][NextDetect]_vars

(***************************************************************************)
(* Rows and dimensions.                                                    *)
(***************************************************************************)

\* C1: rectangularity is kept by every successful mutating operation: from a
\* Dataset whose rows all have length width, an operation that returns
\* normally leaves every row with length width whenever width > 0.
C1_Rectangularity ==
    [][(WellFormed /\ raised' = "None") => Rectangular']_vars

\* C2: header/width coupling is kept by every successful mutating operation:
\* when headers are set after it, len(headers) = width.
C2_HeaderWidthCoupling ==
    [][(WellFormed /\ raised' = "None") => Coupled']_vars

\* C3: on a Dataset with width > 0, insert(index, row) of a row whose length
\* differs from width (a row of length 0 included) raises InvalidDimensions
\* and leaves the stored rows unchanged.
C3_WrongLengthInsertFails ==
    [][\A index \in IndexInputs, row \in RowInputs :
          (Width > 0 /\ Len(row) # Width /\ Call_insert("self", index, row))
              => (raised' = "InvalidDimensions" /\ SelfData' = SelfData)]_vars

\* C8: no partial application: when extend, dict assignment, insert_col or
\* integer-key assignment raises, rows and headers are what they were
\* before the call.
C8_NoPartialApplication ==
    [][(op' \in {"extend", "dict", "insert_col", "append_col", "__setitem__"} /\ raised' # "None")
          => (SelfData' = SelfData /\ SelfHeaders' = SelfHeaders)]_vars

PackagingCalls == {"_package", "_get_dict", "export", "sort"}

\* C4: no packaging call (_package, reading dict, export, sort) changes a
\* stored value: the rows of the Dataset after the call are the rows before
\* it.
C4_PackagingKeepsStoredData ==
    [][op' \in PackagingCalls => SelfData' = SelfData]_vars

\* C5: two consecutive reads of the same kind (_package with the same
\* dicts, or dict), nothing between them, return equal results.
C5_ConsecutiveReadsAgree ==
    [][(/\ op \in {"_package", "_get_dict"} /\ op' = op
        /\ raised = "None" /\ raised' = "None"
        /\ ret.kind = ret'.kind)
          => ret' = ret]_vars

\* A Dataset as a caller sees it: the rows in order with their cells and
\* tags, the headers, the title, the separators and the formatters.
StateOf(m, n) ==
    [rows |-> [i \in 1..height(m, n) |-> RowObj(m, n, i)],
     headers |-> HeadersOf(m, n),
     title |-> m.ds[n].title,
     separators |-> m.lists[m.ds[n].separators],
     formatters |-> FormatterSeq(m, n)]

Transformations == {"sort", "filter", "stack", "stack_cols"}

\* C6: sort, filter, stack and stack_cols leave the receiver as it was: its
\* rows (count, order, cells, tags), headers, title, separators and
\* formatters after the call equal those before it.
C6_TransformKeepsReceiver ==
    [][op' \in Transformations => StateOf(Mem, "self")' = StateOf(Mem, "self")]_vars

\* C7: no mutation of the Dataset that filter, stack or stack_cols returned
\* changes the rows, the headers or the formatters of the Dataset it was
\* made from, or of the other operand.
C7_ResultMutationKeepsSource ==
    [][MutateResult
          => /\ StateOf(Mem, "self")' = StateOf(Mem, "self")
             /\ StateOf(Mem, "other")' = StateOf(Mem, "other")]_vars

\* The rows sort works on: the stored rows with every formatter applied
\* once and, under headers, cut to one cell for each header.
Packaged ==
    LET f == DataOf(ExecuteFormatters(Mem, "self", 1, 1).m, "self")
        n == Len(SelfHeaders.seq)
    IN [i \in 1..Len(f) |-> IF n > 0 /\ Len(f[i]) > n THEN SubSeq(f[i], 1, n) ELSE f[i]]

\* The place of the sort column in a row.
ColumnOf(col) ==
    IF col.kind = "str" THEN ListIndex(SelfHeaders.seq, col.name) + 1
    ELSE IF Len(SelfHeaders.seq) > 0 THEN PyIndex(Len(SelfHeaders.seq), col.index) + 1
    ELSE PyIndex(Width, col.index) + 1

\* out is from sorted by column k (descending when reverse): a permutation
\* of it, in order, rows with equal keys in the order they had in from.
IsStableSort(from, out, k, reverse) ==
    /\ Len(out) = Len(from)
    /\ \E pi \in Permutations(1..Len(from)) :
          /\ \A i \in 1..Len(from) : out[i] = from[pi[i]]
          /\ \A i, j \in 1..Len(from) :
                i < j => /\ ~Before(out[j][k], out[i][k], reverse)
                         /\ out[i][k] = out[j][k] => pi[i] < pi[j]

SortResult(col, reverse) ==
    /\ HeadersOf(Mem, "dset")' = SelfHeaders
    /\ ds'["dset"].title = ds["self"].title
    /\ \E from \in {Packaged} : IsStableSort(from, DataOf(Mem, "dset")', ColumnOf(col), reverse)

\* C10 as claimed: for any header sequence, a sort that returns gives a
\* Dataset with the receiver's headers and title whose rows are the
\* receiver's rows in stable order of the sort column.
C10_SortPermutesRows ==
    [][(op' = "sort" /\ raised' = "None")
          => \A col \in SortBy, reverse \in BOOLEAN :
                 Call_sort("self", col, reverse)
                     => /\ HeadersOf(Mem, "dset")' = SelfHeaders
                        /\ ds'["dset"].title = ds["self"].title
                        /\ IsStableSort(SelfData, DataOf(Mem, "dset")', ColumnOf(col), reverse)]_vars

DistinctHeaders ==
    \A i, j \in 1..Len(SelfHeaders.seq) : SelfHeaders.seq[i] = SelfHeaders.seq[j] => i = j

\* C10 amended: on a Dataset with no headers or with pairwise distinct
\* headers, a sort that returns gives a Dataset with the receiver's headers
\* and title whose rows are the receiver's packaged rows (every formatter
\* applied once; under headers, the first len(headers) cells of each) in
\* stable order of the sort column, ascending or, with reverse, descending.
C10_SortPermutesPackagedRows ==
    [][(op' = "sort" /\ raised' = "None" /\ DistinctHeaders)
          => \A col \in SortBy, reverse \in BOOLEAN :
                 Call_sort("self", col, reverse) => SortResult(col, reverse)]_vars

\* A sort by a header that returned the rows in another order than the
\* receiver's, two of them with the same key.
C10_Witness ==
    /\ op = "sort"
    /\ raised = "None"
    /\ Len(SelfHeaders.seq) > 0 /\ DistinctHeaders
    /\ Height = MaxHeight
    /\ DataOf(Mem, "dset") # SelfData
    /\ \E i, j \in 1..Height : i # j /\ SelfData[i] # SelfData[j] /\ SelfData[i][1] = SelfData[j][1]
    /\ FormatterSeq(Mem, "self") # <<>>

\* What a call on the Dataset of this state gives: the memory after it (the
\* returned Dataset is dset there) and what it raised.
TransposeOfSelf == transpose(Mem, "self")

\* C11: transpose of a Dataset with rows r0.. of n cells and headers h0..
\* returns a Dataset with headers [h0, r0[0], ...] and n-1 rows, the k-th
\* being [hk, r0[k], ...]; on a Dataset with no rows it returns nothing.
C11_TransposeShape ==
    \E t \in {TransposeOfSelf} :
        /\ Height = 0 => (t.exc = "None" /\ ~t.m.ds["dset"].exists)
        /\ (/\ Height > 0
            /\ Len(SelfHeaders.seq) > 0
            /\ \A i \in 1..Height : Len(SelfData[i]) = Len(SelfHeaders.seq))
              => /\ t.exc = "None"
                 /\ t.m.ds["dset"].exists
                 /\ PyEq(HeaderSeq(t.m, "dset"),
                         <<SelfHeaders.seq[1]>> \o [i \in 1..Height |-> SelfData[i][1]])
                 /\ height(t.m, "dset") = Len(SelfHeaders.seq) - 1
                 /\ \A k \in 1..(Len(SelfHeaders.seq) - 1) :
                       PyEq(Cells(t.m, "dset", k),
                            <<SelfHeaders.seq[k + 1]>>
                                \o [i \in 1..Height |-> SelfData[i][k + 1]])

\* C12: for a Dataset with headers, at least one row and every row of
\* len(headers) cells, the transpose of its transpose is a Dataset with
\* the same headers and the same rows.
C12_TransposeRoundTrip ==
    (/\ Height > 0
     /\ Len(SelfHeaders.seq) > 0
     /\ \A i \in 1..Height : Len(SelfData[i]) = Len(SelfHeaders.seq))
       => \E t \in {TransposeOfSelf} :
             /\ t.exc = "None"
             /\ t.m.ds["dset"].exists
             /\ \E tt \in {transpose(t.m, "dset")} :
                   /\ tt.exc = "None"
                   /\ tt.m.ds["dset"].exists
                   /\ PyEq(HeaderSeq(tt.m, "dset"), SelfHeaders.seq)
                   /\ PyEq(DataOf(tt.m, "dset"), SelfData)

OtherData == DataOf(Mem, "other")

\* C13: stack(other) raises InvalidDimensions when the widths differ;
\* otherwise it returns a Dataset with self's rows, then other's rows, and
\* self's headers.
C13_StackAppendsRows ==
    [][op' = "stack"
          => IF Width # width(Mem, "other")
             THEN raised' = "InvalidDimensions"
             ELSE /\ raised' = "None"
                  /\ ds'["dset"].exists
                  /\ DataOf(Mem, "dset")' = SelfData \o OtherData
                  /\ height(Mem, "dset")' = Height + height(Mem, "other")
                  /\ HeadersOf(Mem, "dset")' = SelfHeaders]_vars

\* A stack of two Datasets with rows, under headers, that returned.
C13_Witness ==
    /\ op = "stack"
    /\ raised = "None"
    /\ Height > 0 /\ height(Mem, "other") > 0
    /\ Len(SelfHeaders.seq) > 0
    /\ SelfData # OtherData
    /\ DataOf(Mem, "dset") = SelfData \o OtherData

OtherHeaders == HeadersOf(Mem, "other")

\* C14: stack_cols(other) raises HeadersNeeded when exactly one of the two
\* has headers and InvalidDimensions when the heights differ; in every
\* other case it returns a Dataset of that height whose i-th row is self's
\* i-th row, then other's, and whose headers are self's, then other's (none
\* when neither has any).
C14_StackColsJoinsRows ==
    [][op' = "stack_cols"
          => IF SelfHeaders.set # OtherHeaders.set THEN raised' = "HeadersNeeded"
             ELSE IF Height # height(Mem, "other") THEN raised' = "InvalidDimensions"
             ELSE /\ raised' = "None"
                  /\ ds'["dset"].exists
                  /\ DataOf(Mem, "dset")' = [i \in 1..Height |-> SelfData[i] \o OtherData[i]]
                  /\ HeadersOf(Mem, "dset")' =
                         [set |-> SelfHeaders.set, seq |-> SelfHeaders.seq \o OtherHeaders.seq]]_vars
\* C15: remove_duplicates changes the Dataset itself and returns nothing;
\* the rows after the call are the first occurrence of each distinct row of
\* cells, in the order they had (no row twice, every row of before present,
\* each kept row at the place of its first occurrence); the headers are what
\* they were; and a second remove_duplicates would change nothing.
C15_RemoveDuplicatesKeepsFirst ==
    [][op' = "remove_duplicates"
          => /\ raised' = "None"
             /\ ~ds'["dset"].exists
             /\ SelfHeaders' = SelfHeaders
             /\ SelfData' = Dedup(SelfData)
             /\ \A i, j \in 1..Height' : (SelfData'[i] = SelfData'[j] => i = j)
             /\ \A i \in 1..Height : Contains(SelfData', SelfData[i])
             /\ DataOf(remove_duplicates(Mem, "self").m, "self")' = SelfData']_vars

\* self was built from the rows other still has: a row, another row, and
\* the first row again; remove_duplicates has left self the first two.
C15_Witness ==
    /\ op = "remove_duplicates"
    /\ height(Mem, "other") = 3
    /\ OtherData[1] = OtherData[3]
    /\ OtherData[1] # OtherData[2]
    /\ SelfData = <<OtherData[1], OtherData[2]>>
    /\ Len(SelfHeaders.seq) > 0

\* C16: filter(tag) raises nothing and returns a Dataset whose rows are the
\* rows of the source on which has_tag(tag) holds, in the order of the
\* source: none for the tag None, the rows that carry the tag for a string,
\* the rows that carry at least one of them for a collection of tags.  The
\* rows of the source (cells and tags) are after the call what they were.
RowsOf(m, n) == [i \in 1..height(m, n) |-> RowObj(m, n, i)]
Carries(r, tag) ==
    CASE tag.kind = "None" -> FALSE
      [] tag.kind = "str" -> tag.name \in r.tags
      [] OTHER -> \E t \in tag.names : t \in r.tags

C16_FilterSelectsTaggedRows ==
    [][\A tag \in FilterArgs :
          (op' = "filter" /\ Call_filter("self", tag))
             => /\ raised' = "None"
                /\ ds'["dset"].exists
                /\ RowsOf(Mem, "dset")' = SelectSeq(RowsOf(Mem, "self"), LAMBDA r : Carries(r, tag))
                /\ RowsOf(Mem, "self")' = RowsOf(Mem, "self")
                /\ HeadersOf(Mem, "dset")' = SelfHeaders]_vars

\* Two rows with different tags; the last filter kept the second row only.
C16_Witness ==
    /\ op = "filter"
    /\ Height = 2
    /\ RowObj(Mem, "self", 1).tags # {}
    /\ RowObj(Mem, "self", 1).tags # RowObj(Mem, "self", 2).tags
    /\ SelfData[1] # SelfData[2]
    /\ RowsOf(Mem, "dset") = <<RowObj(Mem, "self", 2)>>

\* C17: on a Dataset with at least one row, subset(rows, cols) raises
\* nothing for any list of row numbers and any list of header names (those
\* that do not exist included, and the defaults) and returns a Dataset with
\* the requested headers that exist and, under them, the rows whose number
\* was requested, in the order of the source; on a Dataset with no rows it
\* returns nothing.
WantedCols(cls) ==
    IF cls.none THEN SelfHeaders.seq
    ELSE SelectSeq(cls.items, LAMBDA h : Contains(SelfHeaders.seq, h))
WantedRows(rws) ==
    SelectSeq([i \in 1..Height |-> i], LAMBDA i : rws.none \/ Contains(rws.items, i - 1))
Projected(row, cls) ==
    [k \in 1..Len(WantedCols(cls)) |-> row[ListIndex(SelfHeaders.seq, WantedCols(cls)[k]) + 1]]

C17_SubsetNeverRaises ==
    [][\A rws \in SubsetRows, cls \in SubsetCols :
          (op' = "subset" /\ Call_subset("self", rws, cls))
             => /\ raised' = "None"
                /\ Height = 0 => ~ds'["dset"].exists
                /\ Height > 0 =>
                      /\ ds'["dset"].exists
                      /\ HeaderSeq(Mem, "dset")' = WantedCols(cls)
                      /\ DataOf(Mem, "dset")' =
                            [j \in 1..Len(WantedRows(rws)) |->
                                Projected(SelfData[WantedRows(rws)[j]], cls)]]_vars

Paired(i) ==
    LET k == IF Len(SelfData[i]) < Len(SelfHeaders.seq)
             THEN Len(SelfData[i]) ELSE Len(SelfHeaders.seq)
    IN [keys |-> SubSeq(SelfHeaders.seq, 1, k), vals |-> SubSeq(SelfData[i], 1, k)]

InsertedAt(r, index, x, r2) ==
    /\ Len(r2) = Len(r) + 1
    /\ index < Len(r2)
    /\ r2[index + 1] = x
    /\ \A k \in 1..Len(r) : r[k] = r2[IF k <= index THEN k ELSE k + 1]

C19_InsertColSplicesColumn ==
    [][\A index \in ColIndexes, col \in ColInputs, header \in HeaderArgs :
          (/\ op' = "insert_col"
           /\ raised' = "None"
           /\ index <= Width
           /\ col.callable \/ Len(col.items) = Height
           /\ Call_insert_col("self", index, col, header))
             => /\ Height > 0 =>
                      /\ Height' = Height
                      /\ Width' = Width + 1
                      /\ \A i \in 1..Height :
                            InsertedAt(SelfData[i], index,
                                       IF col.callable THEN SelfData[i][1] ELSE col.items[i],
                                       SelfData'[i])
                      /\ SelfHeaders.set =>
                            InsertedAt(SelfHeaders.seq, index, header, SelfHeaders'.seq)
                /\ (Height = 0 /\ ~SelfHeaders.set) =>
                      SelfData' = [i \in 1..Len(col.items) |-> <<col.items[i]>>]]_vars

C21_WholeRowFormatterRegisters ==
    [][/\ \A handler \in Handlers :
             (op' = "add_formatter" /\ Call_add_formatter("self", ByNone, handler))
                => /\ raised' = "None"
                   /\ FormatterSeq(Mem, "self")' =
                         Append(FormatterSeq(Mem, "self"),
                                [none |-> TRUE, col |-> 0, handler |-> handler])
       /\ (/\ op' = "_package"
           /\ Len(FormatterSeq(Mem, "self")) = 1
           /\ FormatterSeq(Mem, "self")[1].none)
             => /\ raised' = "None"
                /\ \A i \in 1..Height :
                      ret'.items[Len(ret'.items) - Height + i].vals =
                         [j \in 1..Len(SelfData[i]) |->
                             ApplyHandler(FormatterSeq(Mem, "self")[1].handler, SelfData[i][j])]]_vars

\* C22: add_formatter with an integer selector that addresses no column of
\* the Dataset (selector >= width) raises InvalidDatasetIndex and registers
\* nothing; so a packaging call made right after an add_formatter that
\* raised nothing, on a Dataset with rows, does not raise
\* InvalidDatasetIndex.
C22_OutOfRangeSelectorRejected ==
    [][/\ \A i \in 0..MaxWidth, handler \in Handlers :
             (op' = "add_formatter" /\ i >= Width
              /\ Call_add_formatter("self", ByIndex(i), handler))
                => /\ raised' = "InvalidDatasetIndex"
                   /\ FormatterSeq(Mem, "self")' = FormatterSeq(Mem, "self")
       /\ (/\ op' \in {"_package", "_get_dict", "export"}
           /\ op = "add_formatter"
           /\ raised = "None"
           /\ Height > 0)
             => raised' # "InvalidDatasetIndex"]_vars


(***************************************************************************)
(* Detecting the format.                                                   *)
(***************************************************************************)

\* The formats of the registry that have detect, in registration order.
Capable == SelectSeq(io.formats, LAMBDA fmt : fmt.detect)

\* fmt recognizes the caller's stream read from position pos.
Recognizes(fmt, pos) == detect(fmt, seek(normalize_input(io.stream), pos)).ret

\* The formats detect_format is to consult when every detect finds the
\* stream at position 0: those that have detect, up to the first that
\* recognizes the stream.
ConsultedFromStart ==
    IF \E k \in 1..Len(Capable) : Recognizes(Capable[k], 0)
    THEN SubSeq(Capable, 1, CHOOSE k \in 1..Len(Capable) :
                               /\ Recognizes(Capable[k], 0)
                               /\ \A j \in 1..(k - 1) : ~Recognizes(Capable[j], 0))
    ELSE Capable

DetectedFromStart ==
    IF \E k \in 1..Len(Capable) : Recognizes(Capable[k], 0)
    THEN ConsultedFromStart[Len(ConsultedFromStart)].title
    ELSE "None"

\* C23: detect_format calls detect of the registered formats that have one,
\* in registration order, up to the first that recognizes the stream, whose
\* title it returns; the stream is at position 0 at every call of detect and
\* on return; when no format recognizes the stream it returns None, and load
\* without a format then raises UnsupportedFormat and leaves the Dataset as it
\* was.
C23_DetectionOrder ==
    [][/\ op' \in {"detect_format", "load"}
            => /\ Len(io'.log) = Len(ConsultedFromStart)
               /\ \A k \in 1..Len(io'.log) :
                     /\ io'.log[k].title = ConsultedFromStart[k].title
                     /\ io'.log[k].pos = 0
       /\ op' = "detect_format"
            => /\ ret' = DetectedFromStart
               /\ io'.stream.pos = 0
       /\ (op' = "load" /\ DetectedFromStart = "None")
            => /\ raised' = "UnsupportedFormat"
               /\ <<rows, lists, ds>>' = <<rows, lists, ds>>]_vars


\* C24: on a Dataset with headers and no rows, insert_col with a header name
\* and an empty column (none given, or an empty sequence) raises nothing: the
\* header name is inserted into the headers at the index, the height stays 0
\* and the width grows by 1.
C24_EmptyColumnOnHeadersOnly ==
    [][\A index \in ColIndexes, header \in HeaderNames :
          (/\ op' = "insert_col"
           /\ SelfHeaders.set
           /\ Height = 0
           /\ index <= Width
           /\ Call_insert_col("self", index, Literal(<<>>), header))
             => /\ raised' = "None"
                /\ InsertedAt(SelfHeaders.seq, index, header, SelfHeaders'.seq)
                /\ Height' = 0
                /\ Width' = Width + 1]_vars

====
